---- MODULE Spec2Model ----
(***************************************************************************)
(* Procurement decision core: the rule store (agent/memory.py), the vendor *)
(* evaluator (agent/tools.py), the approval gate (agent/state.py) and the  *)
(* two tool entry points (agent/agent.py).                                 *)
(*                                                                         *)
(* A Python dict is a sequence of <<key, value>> items in insertion order  *)
(* (keys unique); a dict with fixed string keys is a record.  A str that   *)
(* the code lower-cases is a sequence of one-character strings.  None is   *)
(* the record None, a raised exception the record Raised(..).              *)
(***************************************************************************)
EXTENDS Integers, Sequences, FiniteSets

VARIABLES
    file,       \* data/memory.json: the JSON document, a sequence of <<site, rules>> members
    catalog,    \* data/mock_vendors.json: the JSON array of {name, price}
    written,    \* history: site -> the rules last passed to write_site_rules, or None
    replaced,   \* history: the sites whose last write replaced different rules
    call,       \* the last call made: its name and arguments
    ret,        \* the value the last call returned
    vendors,    \* the list object passed to filter_vendors / select_cheapest
    banned,     \* the list object passed to filter_vendors
    out         \* the last call on <<vendors, banned>> and what it returned

vars == <<file, catalog, written, replaced, call, ret, vendors, banned, out>>

(***************************** bounds ***************************************)
MaxLimit == 2
MaxQty == 2
MaxVendors == 3
MaxPrice == 1
MaxBanned == 2

(***************************** values ***************************************)
None == [none |-> TRUE]
Raised(e) == [raised |-> e]

Sites == {"Pune", "Goa"}
Items == {"cement", "steel"}
Quantities == 1..MaxQty
Limits == 0..MaxLimit

UltraTech == <<"U", "t">>
BadRock == <<"B", "r">>
ACC == <<"A", "c">>

\* The lists of length at most n over S.
SeqsUpTo(S, n) == UNION {[1..k -> S] : k \in 0..n}

\* Catalogs the evaluator may find on disk: none, the three vendors at three
\* prices, a tie between the two dearest, a name in two spellings.
CatalogChoices ==
    { <<>>,
      <<[name |-> UltraTech, price |-> 3], [name |-> BadRock, price |-> 1],
        [name |-> ACC, price |-> 2]>>,
      <<[name |-> ACC, price |-> 2], [name |-> BadRock, price |-> 1],
        [name |-> UltraTech, price |-> 2]>>,
      <<[name |-> <<"b", "r">>, price |-> 1], [name |-> BadRock, price |-> 1],
        [name |-> ACC, price |-> 4]>> }

\* Banned lists a caller passes to store_site_rules.
BannedChoices ==
    { <<>>,
      <<<<"b", "r">>>>,
      <<<<"B", "R">>, <<"a", "c">>>>,
      <<UltraTech, BadRock, ACC>> }

RuleChoices == [approval_limit : Limits, banned_vendors : BannedChoices]

\* Inputs of the pure functions.
PureNames == {BadRock, <<"b", "r">>, ACC}
PureBannedNames == {<<"b", "r">>, <<"B", "R">>, <<"a", "c">>}
VendorLists == SeqsUpTo([name : PureNames, price : 0..MaxPrice], MaxVendors)
BannedLists == SeqsUpTo(PureBannedNames, MaxBanned)

(***************************** str.lower ************************************)
LowerChar(c) ==
    CASE c = "A" -> "a" [] c = "B" -> "b" [] c = "C" -> "c"
      [] c = "R" -> "r" [] c = "T" -> "t" [] c = "U" -> "u"
      [] OTHER -> c

Lower(s) == [i \in 1..Len(s) |-> LowerChar(s[i])]

(***************************** dict *****************************************)
DictKeys(d) == {d[i][1] : i \in 1..Len(d)}

\* d.get(k)
DictGet(d, k) ==
    IF k \in DictKeys(d)
    THEN d[CHOOSE i \in 1..Len(d) : d[i][1] = k][2]
    ELSE None

\* d[k] = v: an existing key keeps its place, a new one goes last.
DictSet(d, k, v) ==
    IF k \in DictKeys(d)
    THEN [i \in 1..Len(d) |-> IF d[i][1] = k THEN <<k, v>> ELSE d[i]]
    ELSE Append(d, <<k, v>>)

(***************************** memory.py ************************************)
RECURSIVE ParseMembers(_, _)
ParseMembers(doc, d) ==
    IF doc = <<>> THEN d
    ELSE ParseMembers(Tail(doc), DictSet(d, Head(doc)[1], Head(doc)[2]))

\* json.load: the members in document order, a repeated key keeping the last value.
_load_memory(f) == ParseMembers(f, <<>>)

\* json.dump: one member per item, in the dict's order.
_save_memory(data) == [i \in 1..Len(data) |-> <<data[i][1], data[i][2]>>]

\* A variant with memory.setdefault(site, rules): rules already there stay.
write_site_rules_setdefault(f, site, rules) ==
    LET loaded == _load_memory(f)
        memory == IF site \in DictKeys(loaded) THEN loaded ELSE DictSet(loaded, site, rules)
    IN  [ret |-> DictGet(memory, site), file |-> _save_memory(memory)]

\* A variant with memory[site]: an unknown site raises KeyError.
read_site_rules_subscript(f, site) ==
    LET memory == _load_memory(f)
    IN  [ret |-> IF site \in DictKeys(memory) THEN DictGet(memory, site)
                 ELSE Raised("KeyError"),
         file |-> f]

\* A variant that gives an unknown site default rules and saves them.
read_site_rules_setdefault(f, site) ==
    LET loaded == _load_memory(f)
        memory == IF site \in DictKeys(loaded) THEN loaded
                  ELSE DictSet(loaded, site, [approval_limit |-> 0, banned_vendors |-> <<>>])
    IN  [ret |-> DictGet(memory, site), file |-> _save_memory(memory)]

\* The call's return value and the document it leaves on disk.
write_site_rules(f, site, rules) ==
    LET memory == DictSet(_load_memory(f), site, rules)
    IN  [ret |-> DictGet(memory, site), file |-> _save_memory(memory)]

read_site_rules(f, site) ==
    LET memory == _load_memory(f)
    IN  [ret |-> DictGet(memory, site), file |-> f]

(***************************** tools.py *************************************)
\* json.load of the vendor array: one dict per element, in document order.
load_vendors(cat) == [i \in 1..Len(cat) |-> [name |-> cat[i].name, price |-> cat[i].price]]

\* x in l
InList(x, l) == \E i \in 1..Len(l) : l[i] = x

\* [v for v in vs if v["name"].lower() not in banned_lower]
RECURSIVE Comprehension(_, _)
Comprehension(vs, banned_lower) ==
    IF vs = <<>> THEN <<>>
    ELSE IF InList(Lower(Head(vs).name), banned_lower)
         THEN Comprehension(Tail(vs), banned_lower)
         ELSE <<Head(vs)>> \o Comprehension(Tail(vs), banned_lower)

\* A variant that compares against the banned entries as given.
filter_vendors_exact(vs, bs) ==
    [ret |-> Comprehension(vs, bs), vendors |-> vs, banned |-> bs]

\* l.remove(x): the first element equal to x goes.
RemoveFirst(l, x) ==
    LET k == CHOOSE i \in 1..Len(l) : l[i] = x /\ \A j \in 1..(i - 1) : l[j] # x
    IN  SubSeq(l, 1, k - 1) \o SubSeq(l, k + 1, Len(l))

\* A variant that removes from the list it iterates over.
RECURSIVE RemoveWhileIterating(_, _, _)
RemoveWhileIterating(l, banned_lower, i) ==
    IF i > Len(l) THEN l
    ELSE IF InList(Lower(l[i].name), banned_lower)
         THEN RemoveWhileIterating(RemoveFirst(l, l[i]), banned_lower, i + 1)
         ELSE RemoveWhileIterating(l, banned_lower, i + 1)

filter_vendors_inplace(vs, bs) ==
    LET banned_lower == [i \in 1..Len(bs) |-> Lower(bs[i])]
        left == RemoveWhileIterating(vs, banned_lower, 1)
    IN  [ret |-> left, vendors |-> left, banned |-> bs]

\* The returned list, and the two argument lists as the call leaves them.
filter_vendors(vs, bs) ==
    LET banned_lower == [i \in 1..Len(bs) |-> Lower(bs[i])]
    IN  [ret |-> Comprehension(vs, banned_lower), vendors |-> vs, banned |-> bs]

\* min(vs, key=price) with the comparison turned round: the last minimum wins.
RECURSIVE MinLastFrom(_, _)
MinLastFrom(rest, best) ==
    IF rest = <<>> THEN best
    ELSE MinLastFrom(Tail(rest),
                     IF Head(rest).price <= best.price THEN Head(rest) ELSE best)

select_cheapest_last(vs) ==
    IF vs = <<>> THEN None ELSE MinLastFrom(Tail(vs), Head(vs))

\* min(iterable, key): the running best is replaced only by a strictly smaller key.
RECURSIVE MinFrom(_, _)
MinFrom(rest, best) ==
    IF rest = <<>> THEN best
    ELSE MinFrom(Tail(rest),
                 IF Head(rest).price < best.price THEN Head(rest) ELSE best)

select_cheapest(vs) ==
    IF vs = <<>> THEN None ELSE MinFrom(Tail(vs), Head(vs))

\* A variant that selects from the unfiltered list.
evaluate_vendors_unfiltered(cat, banned_vendors) ==
    LET all_vendors == load_vendors(cat)
        f == filter_vendors(all_vendors, banned_vendors)
    IN  [all_vendors |-> f.vendors, valid_vendors |-> f.ret,
         selected |-> select_cheapest(all_vendors)]

evaluate_vendors(cat, banned_vendors) ==
    LET all_vendors == load_vendors(cat)
        f == filter_vendors(all_vendors, banned_vendors)
        cheapest == select_cheapest(f.ret)
    IN  [all_vendors |-> f.vendors, valid_vendors |-> f.ret, selected |-> cheapest]

(***************************** state.py *************************************)
\* {**d, **u}
DictUpdate(d, u) ==
    [k \in DOMAIN d \cup DOMAIN u |-> IF k \in DOMAIN u THEN u[k] ELSE d[k]]

pause_for_approval(site, vendor, cost, limit) ==
    [status |-> "AWAITING_APPROVAL",
     site |-> site,
     selected_vendor |-> vendor,
     amount |-> cost,
     approval_limit |-> limit,
     reason |-> <<"Cost", cost, "exceeds site approval limit of", limit>>]

approve(paused_state) == DictUpdate(paused_state, [status |-> "APPROVED"])

reject(paused_state, reason) ==
    DictUpdate(paused_state, [status |-> "REJECTED", rejection_reason |-> reason])

\* reject(paused_state): the parameter's default.
DefaultReason == "Rejected by manager"

\* Reasons a caller passes to reject: the default and one of its own.
Reasons == {DefaultReason, "Over budget"}

(***************************** agent.py *************************************)
store_site_rules(f, site, approval_limit, banned_vendors) ==
    LET rules == [approval_limit |-> approval_limit, banned_vendors |-> banned_vendors]
        w == write_site_rules(f, site, rules)
    IN  [ret |-> [status |-> "RULES_STORED", site |-> site, rules |-> w.ret],
         file |-> w.file]

AllBannedReason == "All vendors are banned. No valid vendor available."

\* A variant whose gate is total_cost < approval_limit.
process_procurement_strict(f, cat, site, item, quantity) ==
    LET r == read_site_rules(f, site)
        rules == r.ret
    IN  IF "raised" \in DOMAIN rules THEN [ret |-> rules, file |-> r.file]
        ELSE IF rules = None
        THEN [ret |-> [status |-> "ERROR",
                       reason |-> <<"No rules found for site", site>>],
              file |-> r.file]
        ELSE IF "approval_limit" \notin DOMAIN rules
        THEN [ret |-> Raised("KeyError"), file |-> r.file]
        ELSE
        LET approval_limit == rules.approval_limit
            banned_vendors == IF "banned_vendors" \in DOMAIN rules
                              THEN rules.banned_vendors ELSE <<>>
            result == evaluate_vendors(cat, banned_vendors)
            selected == result.selected
        IN  IF selected = None
            THEN [ret |-> [status |-> "REJECTED",
                           reason |-> AllBannedReason,
                           banned_vendors |-> banned_vendors],
                  file |-> r.file]
            ELSE
            LET total_cost == selected.price
            IN  IF total_cost < approval_limit
                THEN [ret |-> [status |-> "APPROVED",
                               site |-> site,
                               item |-> item,
                               quantity |-> quantity,
                               selected_vendor |-> selected.name,
                               total_cost |-> total_cost,
                               approval_limit |-> approval_limit,
                               reason |-> <<"Cost", total_cost,
                                            "is within approval limit of", approval_limit>>],
                      file |-> r.file]
                ELSE [ret |-> pause_for_approval(site, selected.name, total_cost,
                                                 approval_limit),
                      file |-> r.file]

\* A variant whose cost is the price times the quantity.
process_procurement_times(f, cat, site, item, quantity) ==
    LET r == read_site_rules(f, site)
        rules == r.ret
    IN  IF "raised" \in DOMAIN rules THEN [ret |-> rules, file |-> r.file]
        ELSE IF rules = None
        THEN [ret |-> [status |-> "ERROR",
                       reason |-> <<"No rules found for site", site>>],
              file |-> r.file]
        ELSE IF "approval_limit" \notin DOMAIN rules
        THEN [ret |-> Raised("KeyError"), file |-> r.file]
        ELSE
        LET approval_limit == rules.approval_limit
            banned_vendors == IF "banned_vendors" \in DOMAIN rules
                              THEN rules.banned_vendors ELSE <<>>
            result == evaluate_vendors(cat, banned_vendors)
            selected == result.selected
        IN  IF selected = None
            THEN [ret |-> [status |-> "REJECTED",
                           reason |-> AllBannedReason,
                           banned_vendors |-> banned_vendors],
                  file |-> r.file]
            ELSE
            LET total_cost == selected.price * quantity
            IN  IF total_cost <= approval_limit
                THEN [ret |-> [status |-> "APPROVED",
                               site |-> site,
                               item |-> item,
                               quantity |-> quantity,
                               selected_vendor |-> selected.name,
                               total_cost |-> total_cost,
                               approval_limit |-> approval_limit,
                               reason |-> <<"Cost", total_cost,
                                            "is within approval limit of", approval_limit>>],
                      file |-> r.file]
                ELSE [ret |-> pause_for_approval(site, selected.name, total_cost,
                                                 approval_limit),
                      file |-> r.file]

\* The decision returned, and the document the call leaves on disk.
process_procurement(f, cat, site, item, quantity) ==
    LET r == read_site_rules(f, site)
        rules == r.ret
    IN  IF "raised" \in DOMAIN rules THEN [ret |-> rules, file |-> r.file]
        ELSE IF rules = None
        THEN [ret |-> [status |-> "ERROR",
                       reason |-> <<"No rules found for site", site>>],
              file |-> r.file]
        ELSE IF "approval_limit" \notin DOMAIN rules
        THEN [ret |-> Raised("KeyError"), file |-> r.file]
        ELSE
        LET approval_limit == rules.approval_limit
            banned_vendors == IF "banned_vendors" \in DOMAIN rules
                              THEN rules.banned_vendors ELSE <<>>
            result == evaluate_vendors(cat, banned_vendors)
            selected == result.selected
        IN  IF selected = None
            THEN [ret |-> [status |-> "REJECTED",
                           reason |-> AllBannedReason,
                           banned_vendors |-> banned_vendors],
                  file |-> r.file]
            ELSE
            LET total_cost == selected.price
            IN  IF total_cost <= approval_limit
                THEN [ret |-> [status |-> "APPROVED",
                               site |-> site,
                               item |-> item,
                               quantity |-> quantity,
                               selected_vendor |-> selected.name,
                               total_cost |-> total_cost,
                               approval_limit |-> approval_limit,
                               reason |-> <<"Cost", total_cost,
                                            "is within approval limit of", approval_limit>>],
                      file |-> r.file]
                ELSE [ret |-> pause_for_approval(site, selected.name, total_cost,
                                                 approval_limit),
                      file |-> r.file]

(***************************** the tool calls *******************************)
NoCall == [op |-> "none"]

Init ==
    /\ file = <<>>
    /\ catalog \in CatalogChoices
    /\ written = [s \in Sites |-> None]
    /\ replaced = {}
    /\ call = NoCall
    /\ ret = None
    /\ vendors = <<>>
    /\ banned = <<>>
    /\ out = NoCall

\* The history of a write of rules to site.
Record(site, rules) ==
    /\ written' = [written EXCEPT ![site] = rules]
    /\ replaced' = IF written[site] \notin {None, rules}
                   THEN replaced \cup {site} ELSE replaced \ {site}

StoreSiteRules ==
    \E site \in Sites, approval_limit \in Limits, banned_vendors \in BannedChoices :
        LET s == store_site_rules(file, site, approval_limit, banned_vendors)
        IN  /\ file' = s.file
            /\ ret' = s.ret
            /\ call' = [op |-> "store_site_rules", site |-> site,
                        approval_limit |-> approval_limit,
                        banned_vendors |-> banned_vendors]
            /\ Record(site, [approval_limit |-> approval_limit,
                             banned_vendors |-> banned_vendors])
            /\ UNCHANGED <<catalog, vendors, banned, out>>

ProcessProcurement ==
    \E site \in Sites, item \in Items, quantity \in Quantities :
        LET p == process_procurement(file, catalog, site, item, quantity)
        IN  /\ file' = p.file
            /\ ret' = p.ret
            /\ call' = [op |-> "process_procurement", site |-> site,
                        item |-> item, quantity |-> quantity]
            /\ UNCHANGED <<catalog, written, replaced, vendors, banned, out>>

\* approve and reject take the outcome of a pause, or what they made of one.
FromPause(d) == "amount" \in DOMAIN d

Approve ==
    /\ FromPause(ret)
    /\ ret' = approve(ret)
    /\ call' = [op |-> "approve"]
    /\ UNCHANGED <<file, catalog, written, replaced, vendors, banned, out>>

Reject ==
    /\ FromPause(ret)
    /\ \E reason \in Reasons :
        /\ ret' = reject(ret, reason)
        /\ call' = [op |-> "reject", reason |-> reason]
    /\ UNCHANGED <<file, catalog, written, replaced, vendors, banned, out>>

Next == StoreSiteRules \/ ProcessProcurement \/ Approve \/ Reject

Spec == Init /\ [][Next]_vars

(***************************** the rule store alone *************************)
InitStore == Init /\ catalog = <<>>

WriteSiteRules ==
    \E site \in Sites, rules \in RuleChoices :
        LET w == write_site_rules(file, site, rules)
        IN  /\ file' = w.file
            /\ ret' = w.ret
            /\ call' = [op |-> "write_site_rules", site |-> site, rules |-> rules]
            /\ Record(site, rules)
            /\ UNCHANGED <<catalog, vendors, banned, out>>

ReadSiteRules ==
    \E site \in Sites :
        LET r == read_site_rules(file, site)
        IN  /\ file' = r.file
            /\ ret' = r.ret
            /\ call' = [op |-> "read_site_rules", site |-> site]
            /\ UNCHANGED <<catalog, written, replaced, vendors, banned, out>>

NextStore == WriteSiteRules \/ ReadSiteRules

SpecStore == InitStore /\ [][NextStore]_vars

(***************************** the pure functions ***************************)
InitPure ==
    /\ file = <<>>
    /\ catalog = <<>>
    /\ written = [s \in Sites |-> None]
    /\ replaced = {}
    /\ call = NoCall
    /\ ret = None
    /\ vendors \in VendorLists
    /\ banned \in BannedLists
    /\ out = NoCall

FilterVendors ==
    /\ out = NoCall
    /\ LET f == filter_vendors(vendors, banned)
       IN  /\ out' = [op |-> "filter_vendors", vendors |-> vendors, banned |-> banned,
                      ret |-> f.ret]
           /\ vendors' = f.vendors
           /\ banned' = f.banned
    /\ UNCHANGED <<file, catalog, written, replaced, call, ret>>

\* filter_vendors(filter_vendors(vendors, banned), banned)
FilterAgain ==
    /\ out.op = "filter_vendors"
    /\ LET f == filter_vendors(out.ret, banned)
       IN  /\ out' = [op |-> "filter_again", vendors |-> out.ret, banned |-> banned,
                      ret |-> f.ret]
           /\ banned' = f.banned
    /\ UNCHANGED <<file, catalog, written, replaced, call, ret, vendors>>

SelectCheapest ==
    /\ out = NoCall
    /\ out' = [op |-> "select_cheapest", vendors |-> vendors,
               ret |-> select_cheapest(vendors)]
    /\ UNCHANGED <<file, catalog, written, replaced, call, ret, vendors, banned>>

NextPure == FilterVendors \/ FilterAgain \/ SelectCheapest

SpecPure == InitPure /\ [][NextPure]_vars

(***************************** what the claims compare against **************)
\* Case-insensitive equality of two names, letter by letter.
CasePairs == {<<"a", "A">>, <<"b", "B">>, <<"c", "C">>,
              <<"r", "R">>, <<"t", "T">>, <<"u", "U">>}

SameLetter(c, d) == c = d \/ <<c, d>> \in CasePairs \/ <<d, c>> \in CasePairs

SameName(a, b) == Len(a) = Len(b) /\ \A i \in 1..Len(a) : SameLetter(a[i], b[i])

IsBanned(name, bs) == \E k \in 1..Len(bs) : SameName(name, bs[k])

\* The positions of vs whose vendor is not banned by bs.
Allowed(vs, bs) == {i \in 1..Len(vs) : ~IsBanned(vs[i].name, bs)}

\* The k-th smallest member of a set of positions.
Nth(I, k) == CHOOSE i \in I : Cardinality({j \in I : j < i}) = k - 1

\* vs restricted to the positions I, in the order of vs.
Restrict(vs, I) == [k \in 1..Cardinality(I) |-> vs[Nth(I, k)]]

\* The first position among I of a vendor no dearer than any other of I.
Cheapest(vs, I) ==
    CHOOSE i \in I : \A j \in I : /\ vs[i].price <= vs[j].price
                                  /\ (vs[j].price = vs[i].price => i <= j)

IsDecision(d) == "status" \in DOMAIN d
Gated(d) == IsDecision(d) /\ d.status \in {"APPROVED", "AWAITING_APPROVAL"}
Cost(d) == IF "total_cost" \in DOMAIN d THEN d.total_cost ELSE d.amount

\* The tag, vendor, cost and limit of a decision, each absent field left out.
Core(d) ==
    <<d.status,
      IF "selected_vendor" \in DOMAIN d THEN <<d.selected_vendor>> ELSE <<>>,
      IF "total_cost" \in DOMAIN d \/ "amount" \in DOMAIN d THEN <<Cost(d)>> ELSE <<>>,
      IF "approval_limit" \in DOMAIN d THEN <<d.approval_limit>> ELSE <<>>>>

Processed == call.op = "process_procurement"

(***************************** C1 *******************************************)
\* C1: process_procurement returns, without raising, Error when the site has no
\* stored rules, else Rejected (all vendors banned) when no catalog vendor
\* survives the site's banned list, else Approved when the cheapest surviving
\* vendor's price is <= the site's limit, else AwaitingApproval.
C1_OutcomeOrder ==
    Processed =>
        LET rules == written[call.site]
            I == IF rules = None THEN {} ELSE Allowed(catalog, rules.banned_vendors)
        IN  /\ IsDecision(ret)
            /\ ret.status =
                 IF rules = None THEN "ERROR"
                 ELSE IF I = {} THEN "REJECTED"
                 ELSE IF catalog[Cheapest(catalog, I)].price <= rules.approval_limit
                      THEN "APPROVED"
                      ELSE "AWAITING_APPROVAL"
            /\ (ret.status = "REJECTED" => ret.reason = AllBannedReason)

\* An order approved at a cost equal to the limit.
C1_Witness ==
    /\ Processed
    /\ IsDecision(ret)
    /\ ret.status = "APPROVED"
    /\ ret.total_cost = ret.approval_limit

(***************************** C2 *******************************************)
\* C2: an Approved or AwaitingApproval decision for site S carries the limit
\* most recently stored for S and the name and price of the cheapest catalog
\* vendor not banned, case-insensitively, by the list most recently stored
\* for S; the vendor it names is not banned for S.
C2_DecisionMatchesRules ==
    (Processed /\ Gated(ret)) =>
        LET rules == written[call.site]
        IN  /\ rules # None
            /\ ret.approval_limit = rules.approval_limit
            /\ Allowed(catalog, rules.banned_vendors) # {}
            /\ LET c == Cheapest(catalog, Allowed(catalog, rules.banned_vendors))
               IN  /\ ret.selected_vendor = catalog[c].name
                   /\ Cost(ret) = catalog[c].price
            /\ ~IsBanned(ret.selected_vendor, rules.banned_vendors)

\* A paused order for a site whose rules were replaced, the other site holding
\* other rules, where a cheaper vendor of the catalog is banned.
C2_Witness ==
    /\ Processed
    /\ Gated(ret)
    /\ ret.status = "AWAITING_APPROVAL"
    /\ call.site \in replaced
    /\ \E s \in Sites : written[s] \notin {None, written[call.site]}
    /\ \E i \in 1..Len(catalog) : catalog[i].price < ret.amount

(***************************** C9 *******************************************)
\* C9: the decision does not depend on the item or the quantity: for the same
\* store, catalog and site, every item and quantity give the tag, vendor, cost
\* and limit of the decision returned.
C9_ItemQuantityIgnored ==
    Processed =>
        \A item \in Items, quantity \in Quantities :
            Core(process_procurement(file, catalog, call.site, item, quantity).ret)
                = Core(ret)

\* An approved order of more than one unit whose price times quantity is over the limit.
C9_Witness ==
    /\ Processed
    /\ IsDecision(ret)
    /\ ret.status = "APPROVED"
    /\ call.quantity > 1
    /\ ret.total_cost * call.quantity > ret.approval_limit

(***************************** C10 ******************************************)
\* C10: process_procurement leaves the rule store as it found it, whatever the
\* outcome; only store_site_rules changes the store.
C10_ProcessLeavesStore ==
    [][/\ call'.op = "process_procurement" => file' = file
       /\ file' # file => call'.op = "store_site_rules"]_vars

\* A paused order, both sites' rules on disk.
C10_Witness ==
    /\ Processed
    /\ IsDecision(ret)
    /\ ret.status = "AWAITING_APPROVAL"
    /\ Len(file) = 2

(***************************** C7 *******************************************)
\* C7: Approved and Rejected are terminal: approve or reject applied to an
\* outcome whose status is Approved or Rejected leaves the status as it is.
C7_TerminalOutcomes ==
    [][(call'.op \in {"approve", "reject"} /\ ret.status \in {"APPROVED", "REJECTED"})
          => ret'.status = ret.status]_vars

(***************************** C5 *******************************************)
\* C5: read_site_rules(S) returns the rules passed to the most recent
\* write_site_rules(S, R), whatever was written to S before or to other sites
\* since, and write_site_rules returns the rules it was passed.
C5_ReadReturnsLastWrite ==
    /\ \A s \in Sites :
         written[s] # None => read_site_rules(file, s).ret = written[s]
    /\ call.op = "write_site_rules" => ret = call.rules
    /\ (call.op = "read_site_rules" /\ written[call.site] # None)
          => ret = written[call.site]

\* A read of a site whose rules were replaced, the other site written too.
C5_Witness ==
    /\ call.op = "read_site_rules"
    /\ call.site \in replaced
    /\ \A s \in Sites : written[s] # None
    /\ \E s \in Sites : written[s] # written[call.site]

(***************************** C6 *******************************************)
\* C6: read_site_rules of a site never written returns None, raises nothing,
\* and leaves the store without an entry for the site.
C6_UnknownSiteIsNone ==
    /\ \A s \in Sites :
         written[s] = None =>
            /\ read_site_rules(file, s).ret = None
            /\ read_site_rules(file, s).file = file
            /\ \A i \in 1..Len(file) : file[i][1] # s
    /\ (call.op = "read_site_rules" /\ written[call.site] = None) => ret = None

\* A read of a site never written, the other site's rules on disk.
C6_Witness ==
    /\ call.op = "read_site_rules"
    /\ written[call.site] = None
    /\ file # <<>>

(***************************** C3 *******************************************)
\* C3: select_cheapest returns None for the empty list and raises nothing; for a
\* non-empty list it returns the vendor at the first position whose price is
\* <= every price of the list.
C3_SelectCheapest ==
    out.op = "select_cheapest" =>
        IF out.vendors = <<>>
        THEN out.ret = None
        ELSE \E i \in 1..Len(out.vendors) :
                /\ out.ret = out.vendors[i]
                /\ \A j \in 1..Len(out.vendors) :
                      /\ out.vendors[i].price <= out.vendors[j].price
                      /\ (j < i => out.vendors[j].price > out.vendors[i].price)

\* Two different vendors tied at the minimum, after a dearer one: the first of the two.
C3_Witness ==
    /\ out.op = "select_cheapest"
    /\ Len(out.vendors) = 3
    /\ out.vendors[1].price > out.vendors[2].price
    /\ out.vendors[2].price = out.vendors[3].price
    /\ out.vendors[2] # out.vendors[3]
    /\ out.ret = out.vendors[2]

(***************************** C4 *******************************************)
\* C4: filter_vendors returns the vendors whose name matches no banned entry,
\* compared case-insensitively, in their original order, and leaves both
\* argument lists as they were.
C4_FilterIsSubsequence ==
    out.op = "filter_vendors" =>
        /\ out.ret = Restrict(out.vendors, Allowed(out.vendors, out.banned))
        /\ vendors = out.vendors
        /\ banned = out.banned

\* A vendor removed by an entry spelt in another case, another vendor kept.
C4_Witness ==
    /\ out.op = "filter_vendors"
    /\ out.ret # <<>>
    /\ \E i \in 1..Len(out.vendors) :
          /\ IsBanned(out.vendors[i].name, out.banned)
          /\ \A k \in 1..Len(out.banned) : out.banned[k] # out.vendors[i].name

(***************************** C8 *******************************************)
\* C8: filtering a filtered list again with the same banned list returns it unchanged.
C8_FilterIdempotent ==
    out.op = "filter_again" => out.ret = out.vendors

\* A second filtering of a list the first filtering shortened but did not empty.
C8_Witness ==
    /\ out.op = "filter_again"
    /\ out.vendors # <<>>
    /\ Len(out.vendors) < Len(vendors)

====
